---- MODULE Spec2Model ----
(***************************************************************************)
(* State-machine model of the backtest engine run_backtest                 *)
(* (src/strategies.py).  One Day step is one iteration of the engine's     *)
(* loop over the price table; Finish is the statistics block after it.     *)
(*                                                                         *)
(* Money is an integer number of currency units.  The engine computes in   *)
(* floating point; the model computes the same expressions exactly, with   *)
(* inputs chosen so that every fee, yield and dividend amount is a whole   *)
(* number of units (ETF prices are multiples of 1000, index prices are     *)
(* multiples of 20).  Quotients that the engine truncates or rounds are    *)
(* truncated or rounded the way Python does it (int(), round()).           *)
(***************************************************************************)
EXTENDS Integers, Sequences, FiniteSets, TLC

\* ------------------------------------------------------------------ bounds
\* Longest price table (number of trading days) explored.
MaxDays == 3

\* ------------------------------------------------------- program constants
\* FUTURES_CONFIG['margin_per_contract'] and ['point_value'] (config.py)
margin_per_contract == 500
point_value == 50
\* cost = abs(diff_contracts) * 50
fee_per_contract == 50
\* cost_rate = 0.001, written as cost_rate_num / cost_rate_den
cost_rate_num == 1
cost_rate_den == 1000
\* daily_yield = dividend_yield / 252
trading_days == 252

\* ----------------------------------------------------------- number model
\* A float that may be NaN: the ETF price of a day, the moving average.
NaN == [nan |-> TRUE, n |-> 0, d |-> 1]
Num(x) == [nan |-> FALSE, n |-> x, d |-> 1]
Frac(x, y) == [nan |-> FALSE, n |-> x, d |-> y]
isna(x) == x.nan

Abs(x) == IF x < 0 THEN -x ELSE x
Max(a, b) == IF a >= b THEN a ELSE b
Min(a, b) == IF a <= b THEN a ELSE b

\* Python int(n / d): truncation toward zero, d > 0
Trunc(n, d) == IF n >= 0 THEN n \div d ELSE -((-n) \div d)
\* Python round(n / d), d > 0: to nearest, ties to the even neighbour
PyRound(n, d) ==
    LET q == n \div d
        r == n - q * d
    IN  IF 2 * r < d THEN q
        ELSE IF 2 * r > d THEN q + 1
        ELSE IF q % 2 = 0 THEN q ELSE q + 1
\* n / d where the inputs make the quotient a whole number
Exact(n, d) == n \div d
Inexact(n, d) == n % d # 0

\* ----------------------------------------------------------------- inputs
\* the strategy codes the dashboard offers and passes on unchanged
strategy_options == {"always_long", "ma_long", "ma_short", "ma_trend", "etf_only"}
Strategies == {"always_long", "ma_long", "ma_trend", "etf_only", "ma_short"}
\* the strategies whose signal the ma_period argument can reach
MaStrategies == {"always_long", "ma_long", "ma_trend"}
AllocationModes == {"dynamic", "fixed", "futures_only", "custom"}
\* the price table has a column for 00631L and none for 00878
Columns == {"TAIEX", "00631L"}
EtfCodes == {"none", "00631L", "00878"}
Months == {1, 2}
FirstMonths == {1}
TaiexPrices == {40, 100, 120}
FirstTaiexPrices == {100}
EtfPrices == {NaN, Num(0), Num(1000), Num(2000)}
\* no share is held on the first day: a zero price acts as a missing one
FirstEtfPrices == {NaN, Num(1000)}
\* the dividend calendar's entry for a date: absent, or a per-share amount
NoEntry == [present |-> FALSE, amount |-> 0]
Entry(a) == [present |-> TRUE, amount |-> a]
DividendEntries == {NoEntry, Entry(100)}

\* leverage, ma_period, risk_ratio, dividend_yield, futures_pct, etf_pct
Profiles ==
    { [initial_capital |-> 10000, leverage |-> 3, ma_period |-> 2, risk_ratio |-> 3,
       dividend_yield |-> Frac(252, 1000),
       futures_pct |-> Frac(6, 10), etf_pct |-> Frac(4, 10)],
      [initial_capital |-> 10000, leverage |-> 1, ma_period |-> 2, risk_ratio |-> 1,
       dividend_yield |-> Frac(0, 1000),
       futures_pct |-> Frac(10, 10), etf_pct |-> Frac(10, 10)],
      [initial_capital |-> 10000, leverage |-> 3, ma_period |-> 0, risk_ratio |-> 1,
       dividend_yield |-> Frac(252, 1000),
       futures_pct |-> Frac(6, 10), etf_pct |-> Frac(4, 10)] }

ProfilesFor(s) == { q \in Profiles : q.ma_period > 0 \/ s \in MaStrategies }

Configs ==
    UNION { { [strategy |-> s, etf_code |-> e, allocation_mode |-> a,
               initial_capital |-> p.initial_capital, leverage |-> p.leverage,
               ma_period |-> p.ma_period, risk_ratio |-> p.risk_ratio,
               dividend_yield |-> p.dividend_yield,
               futures_pct |-> p.futures_pct, etf_pct |-> p.etf_pct] :
              e \in EtfCodes, a \in AllocationModes, p \in ProfilesFor(s) } :
            s \in Strategies }

\* One day of input: the date's month, the index close, the ETF column's
\* close (NaN when missing) and the dividend calendar's entry for the date.
Rows(c, first) ==
    { [month |-> m, TAIEX |-> t, etf |-> e, dividend |-> dv] :
      m \in Months,
      t \in IF first THEN FirstTaiexPrices ELSE TaiexPrices,
      e \in IF c.etf_code \in Columns
             THEN (IF first THEN FirstEtfPrices ELSE EtfPrices)
             ELSE {NaN},
      dv \in IF c.etf_code \in Columns /\ ~first THEN DividendEntries ELSE {NoEntry} }

\* ------------------------------------------------------------------ state
VARIABLES
    cfg,                  \* the arguments of run_backtest
    df,                   \* the rows of the price table processed so far
    pc,                   \* "loop" | "done" | "raised" (an exception left the loop)
    cash, contracts, etf_shares, last_valid_etf_value,
    equity_arr, trade_log, total_cost, total_dividend,
    last_month,
    day,                  \* the locals of the last loop iteration
    stats

vars == <<cfg, df, pc, cash, contracts, etf_shares, last_valid_etf_value,
          equity_arr, trade_log, total_cost, total_dividend, last_month, day, stats>>

\* ------------------------------------------------- moving average (47-51)
RECURSIVE SumRange(_, _, _)
SumRange(s, lo, hi) == IF lo > hi THEN 0 ELSE s[lo] + SumRange(s, lo + 1, hi)

\* df['TAIEX'].rolling(window=ma_period).mean() at row i (0-based), where
\* prices holds rows 0..i; NaN until the window is full, and for ma_period <= 0
RollingMean(prices, i, ma_period) ==
    IF ma_period > 0 /\ i + 1 >= ma_period
    THEN Frac(SumRange(prices, i + 2 - ma_period, i + 1), ma_period)
    ELSE NaN

\* variant: a price equal to the moving average does not count as above it
GeMA_Strict(price_taiex, ma_val) == price_taiex * ma_val.d > ma_val.n

\* price_taiex >= ma_val for a defined ma_val
GeMA(price_taiex, ma_val) == price_taiex * ma_val.d >= ma_val.n

\* --------------------------------------------------- 1. PnL (lines 77-95)
FutPnl_Reversed(i, held, price_taiex, prev_taiex) ==
    IF i > 0 THEN held * (prev_taiex - price_taiex) * point_value ELSE 0

\* fut_pnl = contracts * (price_taiex - prev_taiex) * point_value, inside `if i > 0`
FutPnl(i, held, price_taiex, prev_taiex) ==
    IF i > 0 THEN held * (price_taiex - prev_taiex) * point_value ELSE 0

\* contracts * (prev_taiex * dividend_yield / 252) * point_value if contracts > 0
YieldNum(held, prev_taiex, dividend_yield) ==
    held * prev_taiex * dividend_yield.n * point_value
YieldDen(dividend_yield) == dividend_yield.d * trading_days

\* variant: the yield accrues on short positions too
YieldPnl_AnyPosition(i, held, prev_taiex, dividend_yield) ==
    IF i > 0 /\ held # 0
    THEN Exact(YieldNum(held, prev_taiex, dividend_yield), YieldDen(dividend_yield))
    ELSE 0

YieldPnl(i, held, prev_taiex, dividend_yield) ==
    IF i > 0 /\ held > 0
    THEN Exact(YieldNum(held, prev_taiex, dividend_yield), YieldDen(dividend_yield))
    ELSE 0

\* variant: the per-share amount is credited once, not per share
DivIncome_PerDate(i, shares, entry) ==
    IF i > 0 /\ shares > 0 /\ entry.present THEN entry.amount ELSE 0

\* div_income = etf_shares * etf_dividends[date_str], inside `if i > 0`
DivIncome(i, shares, entry) ==
    IF i > 0 /\ shares > 0 /\ entry.present THEN shares * entry.amount ELSE 0

\* ------------------------------------------------ 2. signal (lines 97-113)
\* variant: always_long waits for the moving average
Signal_LongNeedsMA(strategy, price_taiex, ma_val) ==
    IF strategy = "always_long" THEN (IF isna(ma_val) THEN 0 ELSE 1)
    ELSE IF strategy = "ma_long"
         THEN IF isna(ma_val) THEN 0
              ELSE IF GeMA(price_taiex, ma_val) THEN 1 ELSE 0
    ELSE IF strategy = "ma_trend"
         THEN IF isna(ma_val) THEN 0
              ELSE IF GeMA(price_taiex, ma_val) THEN 1 ELSE -1
    ELSE 0

\* variant: an unrecognised strategy is treated as the long/short one
Signal_UnknownTrend(strategy, price_taiex, ma_val) ==
    IF strategy = "always_long" THEN 1
    ELSE IF strategy = "ma_long"
         THEN IF isna(ma_val) THEN 0
              ELSE IF GeMA(price_taiex, ma_val) THEN 1 ELSE 0
    ELSE IF strategy = "etf_only" THEN 0
    ELSE IF isna(ma_val) THEN 0
    ELSE IF GeMA(price_taiex, ma_val) THEN 1 ELSE -1

Signal(strategy, price_taiex, ma_val) ==
    IF strategy = "always_long" THEN 1
    ELSE IF strategy = "ma_long"
         THEN IF isna(ma_val) THEN 0
              ELSE IF GeMA(price_taiex, ma_val) THEN 1 ELSE 0
    ELSE IF strategy = "ma_trend"
         THEN IF isna(ma_val) THEN 0
              ELSE IF GeMA(price_taiex, ma_val) THEN 1 ELSE -1
    ELSE IF strategy = "etf_only" THEN 0
    ELSE 0

\* ------------------------------------------- 3. rebalance (lines 115-181)
\* variant: every day rebalances
IsRebalance_Daily(i, curr_month, lm) == TRUE

\* variant: the first day is not treated as a rebalance day
IsRebalance_NoFirstDay(i, curr_month, lm) == curr_month # lm

IsRebalance(i, curr_month, lm) == (i = 0) \/ (curr_month # lm)

\* etf_shares * price_etf if (etf_shares > 0 and not pd.isna(price_etf)) else 0
HeldEtfValue(shares, price_etf) ==
    IF shares > 0 /\ ~isna(price_etf) THEN shares * price_etf.n ELSE 0

\* variant: the sizing guard lets a zero index price through
SizingDivides_NonNegative(price_taiex) == price_taiex >= 0

\* the guard of the sizing quotient: ... if price_taiex > 0 else 0
SizingDivides(price_taiex) == price_taiex > 0

\* int(round(target_notional / (price_taiex * point_value))) if price_taiex > 0 else 0
\* with target_notional = notional.n / notional.d
ContractsFor(notional, price_taiex) ==
    IF SizingDivides(price_taiex)
    THEN PyRound(notional.n, notional.d * price_taiex * point_value)
    ELSE 0

\* the rebalance evaluates the sizing quotient: not for etf_only, and in
\* fixed mode only under a non-zero signal
SizingEvaluated(c, signal) ==
    c.strategy # "etf_only" /\ (c.allocation_mode = "fixed" => signal # 0)

\* int(round(x / 0)) raises: a float quotient by zero is inf or nan
SizingRaises(c, signal, price_taiex) ==
    /\ SizingEvaluated(c, signal)
    /\ SizingDivides(price_taiex)
    /\ price_taiex * point_value = 0

RequiredMargin(target_contracts, risk_ratio) ==
    Abs(target_contracts) * margin_per_contract * risk_ratio

\* variant: the pure-ETF strategy sizes contracts like an always-long one
TargetsEtfOnly_Sized(c, signal, total_equity, price_taiex) ==
    [target_contracts |-> ContractsFor(Num(total_equity * c.leverage), price_taiex),
     required_margin |-> 0,
     target_etf_value |-> IF c.etf_code # "none" THEN Num(total_equity) ELSE Num(0)]

\* strategy == 'etf_only' (lines 127-130)
TargetsEtfOnly(c, signal, total_equity, price_taiex) ==
    [target_contracts |-> 0, required_margin |-> 0,
     target_etf_value |-> IF c.etf_code # "none" THEN Num(total_equity) ELSE Num(0)]

\* allocation_mode == 'dynamic' (lines 132-143)
TargetsDynamic(c, signal, total_equity, price_taiex) ==
    LET target_notional ==
            IF signal # 0 THEN Num(total_equity * c.leverage * Abs(signal)) ELSE Num(0)
        sized == ContractsFor(target_notional, price_taiex)
        target_contracts ==
            IF signal = -1 THEN -sized ELSE IF signal = 0 THEN 0 ELSE sized
        required_margin == RequiredMargin(target_contracts, c.risk_ratio)
    IN  [target_contracts |-> target_contracts, required_margin |-> required_margin,
         target_etf_value |-> IF c.etf_code # "none"
                             THEN Num(Max(0, total_equity - required_margin))
                             ELSE Num(0)]

\* variant: in fixed mode the ETF target is dropped while the signal is flat
TargetsFixed_FlatNoEtf(c, signal, total_equity, price_taiex) ==
    LET sized == ContractsFor(
                     Frac(total_equity * c.futures_pct.n * c.leverage, c.futures_pct.d),
                     price_taiex)
        target_contracts ==
            IF signal # 0 THEN (IF signal = -1 THEN -sized ELSE sized) ELSE 0
    IN  [target_contracts |-> target_contracts,
         required_margin |-> RequiredMargin(target_contracts, c.risk_ratio),
         target_etf_value |-> IF c.etf_code # "none" /\ signal # 0
                             THEN Frac(total_equity * c.etf_pct.n, c.etf_pct.d)
                             ELSE Num(0)]

\* allocation_mode == 'fixed' (lines 145-161)
TargetsFixed(c, signal, total_equity, price_taiex) ==
    LET target_notional ==
            Frac(total_equity * c.futures_pct.n * c.leverage, c.futures_pct.d)
        sized == ContractsFor(target_notional, price_taiex)
        target_contracts ==
            IF signal # 0 THEN (IF signal = -1 THEN -sized ELSE sized) ELSE 0
        target_etf_value ==
            IF c.etf_code # "none"
            THEN Frac(total_equity * c.etf_pct.n, c.etf_pct.d)
            ELSE Num(0)
    IN  [target_contracts |-> target_contracts,
         required_margin |-> RequiredMargin(target_contracts, c.risk_ratio),
         target_etf_value |-> target_etf_value]

\* variant: futures_only sizes an ETF sleeve like dynamic
TargetsFuturesOnly_WithEtf(c, signal, total_equity, price_taiex) ==
    TargetsDynamic(c, signal, total_equity, price_taiex)

\* allocation_mode == 'futures_only' (lines 163-174)
TargetsFuturesOnly(c, signal, total_equity, price_taiex) ==
    LET target_notional ==
            IF signal # 0 THEN Num(total_equity * c.leverage * Abs(signal)) ELSE Num(0)
        sized == ContractsFor(target_notional, price_taiex)
        target_contracts ==
            IF signal = -1 THEN -sized ELSE IF signal = 0 THEN 0 ELSE sized
    IN  [target_contracts |-> target_contracts,
         required_margin |-> RequiredMargin(target_contracts, c.risk_ratio),
         target_etf_value |-> Num(0)]

\* any other allocation_mode (lines 176-181)
TargetsDefault(c, signal, total_equity, price_taiex) ==
    LET target_notional ==
            IF signal # 0 THEN Num(total_equity * c.leverage * Abs(signal)) ELSE Num(0)
        target_contracts == ContractsFor(target_notional, price_taiex)
        required_margin == RequiredMargin(target_contracts, c.risk_ratio)
    IN  [target_contracts |-> target_contracts, required_margin |-> required_margin,
         target_etf_value |-> IF c.etf_code # "none"
                             THEN Num(Max(0, total_equity - required_margin))
                             ELSE Num(0)]

Targets(c, signal, total_equity, price_taiex) ==
    IF c.strategy = "etf_only" THEN TargetsEtfOnly(c, signal, total_equity, price_taiex)
    ELSE IF c.allocation_mode = "dynamic"
         THEN TargetsDynamic(c, signal, total_equity, price_taiex)
    ELSE IF c.allocation_mode = "fixed"
         THEN TargetsFixed(c, signal, total_equity, price_taiex)
    ELSE IF c.allocation_mode = "futures_only"
         THEN TargetsFuturesOnly(c, signal, total_equity, price_taiex)
    ELSE TargetsDefault(c, signal, total_equity, price_taiex)

\* ------------------------------------------- futures leg (lines 183-213)
\* action labels: "close" 平倉, "long" 做多, "reduce" 減倉, "short" 做空
\* the action label of a futures record (lines 194-200)
FuturesAction(target_contracts, diff_contracts) ==
    IF target_contracts = 0 THEN "close"
    ELSE IF target_contracts > 0
         THEN (IF diff_contracts > 0 THEN "long" ELSE "reduce")
    ELSE "short"

\* variant: the fee is charged per trade, not per contract
FuturesCost_PerTrade(diff_contracts) ==
    IF diff_contracts # 0 THEN fee_per_contract ELSE 0

\* variant: adjusting the futures position costs nothing
FuturesCost_Free(diff_contracts) == 0

FuturesCost(diff_contracts) == Abs(diff_contracts) * fee_per_contract

\* variant: the futures leg logs a record on every rebalance
FuturesRecords_Always(date, held, target_contracts, cash_after, shares, price_etf) ==
    << [date |-> date, type |-> "futures",
        action |-> FuturesAction(target_contracts, target_contracts - held),
        delta |-> target_contracts - held, after |-> target_contracts,
        cost |-> FuturesCost(target_contracts - held),
        equity |-> cash_after + HeldEtfValue(shares, price_etf)] >>

\* the records appended by the futures leg (none when diff_contracts == 0)
FuturesRecords(date, held, target_contracts, cash_after, shares, price_etf) ==
    LET diff_contracts == target_contracts - held
    IN  IF diff_contracts # 0
        THEN << [date |-> date, type |-> "futures",
                 action |-> FuturesAction(target_contracts, diff_contracts),
                 delta |-> diff_contracts, after |-> target_contracts,
                 cost |-> FuturesCost(diff_contracts),
                 equity |-> cash_after + HeldEtfValue(shares, price_etf)] >>
        ELSE << >>

\* ----------------------------------------------- ETF leg (lines 215-280)
EtfLegRuns(etf_code, price_etf) ==
    etf_code # "none" /\ ~isna(price_etf) /\ price_etf.n > 0

\* int(target_etf_value / 0) raises
EtfLegRaises(etf_code, price_etf) ==
    EtfLegRuns(etf_code, price_etf) /\ price_etf.n = 0

\* variant: the target share count is not clamped at zero
TargetEtfShares_Unclamped(target_etf_value, price_etf) ==
    Trunc(target_etf_value.n, target_etf_value.d * price_etf.n)

\* max(0, int(target_etf_value / price_etf))
TargetEtfShares(target_etf_value, price_etf) ==
    Max(0, Trunc(target_etf_value.n, target_etf_value.d * price_etf.n))

\* variant: the margin reserve is not set aside
AvailableCash_NoReserve(c, required_margin) == Max(0, c)

AvailableCash(c, required_margin) == Max(0, c - required_margin)

\* int(available_cash / (price_etf * (1 + cost_rate)))
MaxBuyShares(available_cash, price_etf) ==
    Trunc(available_cash * cost_rate_den, price_etf.n * (cost_rate_den + cost_rate_num))

\* variant: the requested delta is bought whatever the cash
ActualBuy_Full(diff_shares, max_buy_shares) == diff_shares

ActualBuy(diff_shares, max_buy_shares) == Min(diff_shares, max_buy_shares)

\* variant: ETF trades are free of the proportional fee
EtfCost_Free(trade_value) == 0

\* cost = trade_value * cost_rate
EtfCost(trade_value) == Exact(trade_value * cost_rate_num, cost_rate_den)

\* The ETF leg from (cash c, shares) to the new cash and shares, with the
\* locals it computes; ran is FALSE when the leg is skipped.
EtfLeg(etf_code, price_etf, target_etf_value, required_margin, c, shares) ==
    IF ~EtfLegRuns(etf_code, price_etf)
    THEN [ran |-> FALSE, cash |-> c, etf_shares |-> shares, cost |-> 0,
          target_etf_shares |-> 0, diff_shares |-> 0, available_cash |-> 0,
          max_buy_shares |-> 0, actual_buy |-> 0, trade_value |-> 0, action |-> "none"]
    ELSE
    LET target_etf_shares == TargetEtfShares(target_etf_value, price_etf)
        diff_shares == target_etf_shares - shares
        available_cash == AvailableCash(c, required_margin)
        max_buy_shares == MaxBuyShares(available_cash, price_etf)
        actual_buy == ActualBuy(diff_shares, max_buy_shares)
        sell_shares == Abs(diff_shares)
    IN  IF diff_shares > 0
        THEN IF actual_buy > 0
             THEN [ran |-> TRUE,
                   cash |-> c - (EtfCost(actual_buy * price_etf.n) + actual_buy * price_etf.n),
                   etf_shares |-> shares + actual_buy,
                   cost |-> EtfCost(actual_buy * price_etf.n),
                   target_etf_shares |-> target_etf_shares, diff_shares |-> diff_shares,
                   available_cash |-> available_cash, max_buy_shares |-> max_buy_shares,
                   actual_buy |-> actual_buy, trade_value |-> actual_buy * price_etf.n,
                   action |-> "buy"]
             ELSE [ran |-> TRUE, cash |-> c, etf_shares |-> shares, cost |-> 0,
                   target_etf_shares |-> target_etf_shares, diff_shares |-> diff_shares,
                   available_cash |-> available_cash, max_buy_shares |-> max_buy_shares,
                   actual_buy |-> actual_buy, trade_value |-> 0, action |-> "none"]
        ELSE IF diff_shares < 0
        THEN [ran |-> TRUE,
              cash |-> c + (sell_shares * price_etf.n - EtfCost(sell_shares * price_etf.n)),
              etf_shares |-> shares - sell_shares,
              cost |-> EtfCost(sell_shares * price_etf.n),
              target_etf_shares |-> target_etf_shares, diff_shares |-> diff_shares,
              available_cash |-> 0, max_buy_shares |-> 0,
              actual_buy |-> 0, trade_value |-> sell_shares * price_etf.n,
              action |-> "sell"]
        ELSE [ran |-> TRUE, cash |-> c, etf_shares |-> shares, cost |-> 0,
              target_etf_shares |-> target_etf_shares, diff_shares |-> 0,
              available_cash |-> 0, max_buy_shares |-> 0,
              actual_buy |-> 0, trade_value |-> 0, action |-> "none"]

\* the records appended by the ETF leg: action "buy" 買入, "sell" 賣出
EtfRecords(date, etf_code, price_etf, leg) ==
    IF leg.action = "buy"
    THEN << [date |-> date, type |-> "ETF", action |-> "buy",
             delta |-> leg.actual_buy, after |-> leg.etf_shares, cost |-> leg.cost,
             equity |-> leg.cash + leg.etf_shares * price_etf.n] >>
    ELSE IF leg.action = "sell"
    THEN << [date |-> date, type |-> "ETF", action |-> "sell",
             delta |-> leg.diff_shares, after |-> leg.etf_shares, cost |-> leg.cost,
             equity |-> leg.cash + leg.etf_shares * price_etf.n] >>
    ELSE << >>

\* --------------------------------------------- 4. equity (lines 284-302)
PriceValid(price_etf) == ~isna(price_etf) /\ price_etf.n > 0

\* variant: held shares are worth nothing on a day without a valid price
EtfValue_Cliff(shares, price_etf, last_valid) ==
    IF shares > 0 /\ PriceValid(price_etf) THEN shares * price_etf.n ELSE 0

\* the ETF value of the day's valuation
EtfValue(shares, price_etf, last_valid) ==
    IF shares > 0
    THEN (IF PriceValid(price_etf) THEN shares * price_etf.n ELSE last_valid)
    ELSE 0

NextLastValid(shares, price_etf, last_valid) ==
    IF shares > 0 /\ PriceValid(price_etf) THEN shares * price_etf.n ELSE last_valid

\* variant: a clamped value falls back to initial_capital on every day
ClampEquity_ToInitial(total_equity, arr, initial_capital) ==
    IF total_equity <= 0 THEN initial_capital ELSE total_equity

\* variant: the recorded value is never clamped
ClampEquity_Unclamped(total_equity, arr, initial_capital) == total_equity

\* if total_equity <= 0: total_equity = equity_arr[-1] if equity_arr else initial_capital
ClampEquity(total_equity, arr, initial_capital) ==
    IF total_equity <= 0
    THEN (IF Len(arr) > 0 THEN arr[Len(arr)] ELSE initial_capital)
    ELSE total_equity

\* ------------------------------------------------------------ the loop
\* price_etf of a row (line 74): NaN unless an ETF is selected and has a column
PriceEtf(c, row) ==
    IF c.etf_code # "none" /\ c.etf_code \in Columns THEN row.etf ELSE NaN

NoTargets == [target_contracts |-> 0, required_margin |-> 0, target_etf_value |-> Num(0)]
NoLeg == [ran |-> FALSE, cash |-> 0, etf_shares |-> 0, cost |-> 0,
          target_etf_shares |-> 0, diff_shares |-> 0, available_cash |-> 0,
          max_buy_shares |-> 0, actual_buy |-> 0, trade_value |-> 0, action |-> "none"]
NoDay == [i |-> -1]

TaiexOf(rows) == [k \in 1..Len(rows) |-> rows[k].TAIEX]

\* One iteration of the loop at lines 70-302 on the next row of the table.
Iteration(row) ==
    /\ pc = "loop"
    /\ Len(df) = 0 => row.month = last_month
    /\ LET i == Len(df)
           rows == Append(df, row)
           price_taiex == row.TAIEX
           price_etf == PriceEtf(cfg, row)
           ma_val == RollingMean(TaiexOf(rows), i, cfg.ma_period)
           prev_taiex == IF i > 0 THEN df[i].TAIEX ELSE 0
           \* 1. PnL
           fut_pnl == FutPnl(i, contracts, price_taiex, prev_taiex)
           yield_pnl == YieldPnl(i, contracts, prev_taiex, cfg.dividend_yield)
           div_income == DivIncome(i, etf_shares, row.dividend)
           cash_pnl == cash + fut_pnl + yield_pnl + div_income
           \* 2. signal
           signal == Signal(cfg.strategy, price_taiex, ma_val)
           \* 3. rebalance
           rebalance == IsRebalance(i, row.month, last_month)
           sizing_equity == cash_pnl + HeldEtfValue(etf_shares, price_etf)
           t == IF rebalance THEN Targets(cfg, signal, sizing_equity, price_taiex)
                ELSE NoTargets
           diff_contracts == IF rebalance THEN t.target_contracts - contracts ELSE 0
           cash_fut == cash_pnl - FuturesCost(diff_contracts)
           leg == IF rebalance
                  THEN EtfLeg(cfg.etf_code, price_etf, t.target_etf_value,
                              t.required_margin, cash_fut, etf_shares)
                  ELSE NoLeg
           new_cash == IF rebalance THEN leg.cash ELSE cash_pnl
           new_shares == IF rebalance THEN leg.etf_shares ELSE etf_shares
           records == IF rebalance
                      THEN FuturesRecords(i, contracts, t.target_contracts, cash_fut,
                                          etf_shares, price_etf)
                           \o EtfRecords(i, cfg.etf_code, price_etf, leg)
                      ELSE << >>
           \* 4. equity
           etf_value == EtfValue(new_shares, price_etf, last_valid_etf_value)
           raw_equity == new_cash + etf_value
           raises == rebalance /\ ( SizingRaises(cfg, signal, price_taiex)
                                   \/ EtfLegRaises(cfg.etf_code, price_etf) )
       IN  IF raises
           THEN /\ pc' = "raised"
                /\ UNCHANGED <<df, cash, contracts, etf_shares, last_valid_etf_value,
                               equity_arr, trade_log, total_cost, total_dividend,
                               last_month, day>>
           ELSE
           /\ pc' = pc
           /\ df' = rows
           /\ cash' = new_cash
           /\ contracts' = IF rebalance THEN t.target_contracts ELSE contracts
           /\ etf_shares' = new_shares
           /\ trade_log' = trade_log \o records
           /\ total_cost' = total_cost + FuturesCost(diff_contracts)
                            + (IF rebalance THEN leg.cost ELSE 0)
           /\ total_dividend' = total_dividend + div_income
           /\ last_month' = IF rebalance THEN row.month ELSE last_month
           /\ last_valid_etf_value' =
                  NextLastValid(new_shares, price_etf, last_valid_etf_value)
           /\ equity_arr' =
                  Append(equity_arr, ClampEquity(raw_equity, equity_arr, cfg.initial_capital))
           /\ day' = [i |-> i, month |-> row.month, price_taiex |-> price_taiex,
                      price_etf |-> price_etf, ma_val |-> ma_val,
                      contracts_before |-> contracts, shares_before |-> etf_shares,
                      cash_before |-> cash, last_month_before |-> last_month,
                      fut_pnl |-> fut_pnl, yield_pnl |-> yield_pnl,
                      div_income |-> div_income, cash_pnl |-> cash_pnl,
                      signal |-> signal, rebalance |-> rebalance,
                      total_equity |-> sizing_equity,
                      target_contracts |-> t.target_contracts,
                      required_margin |-> t.required_margin,
                      target_etf_value |-> t.target_etf_value,
                      diff_contracts |-> diff_contracts, cash_fut |-> cash_fut,
                      leg |-> leg, etf_value |-> etf_value, raw_equity |-> raw_equity,
                      inexact |->
                          \/ /\ i > 0 /\ contracts > 0
                             /\ Inexact(YieldNum(contracts, prev_taiex, cfg.dividend_yield),
                                        YieldDen(cfg.dividend_yield))
                          \/ Inexact(leg.trade_value * cost_rate_num, cost_rate_den)]
    /\ UNCHANGED <<cfg, stats>>

\* ------------------------------------------- statistics (lines 304-334)
\* a / b < c / d for a, c >= 0 and b, d > 0, compared by quotient and
\* remainder so that no product is formed
RECURSIVE FracLess(_, _, _, _)
FracLess(a, b, c, d) ==
    IF a \div b # c \div d THEN a \div b < c \div d
    ELSE IF c % d = 0 THEN FALSE
    ELSE IF a % b = 0 THEN TRUE
    ELSE FracLess(d, c % d, b, a % b)

\* variant: the peak is the first equity value, not the running maximum
CumMax_First(arr) == [k \in 1..Len(arr) |-> arr[1]]

\* roll_max = equity_series.cummax()
CumMax(arr) ==
    [k \in 1..Len(arr) |-> CHOOSE m \in {arr[j] : j \in 1..k} :
                               \A j \in 1..k : arr[j] <= m]

\* mdd = ((equity_series - roll_max) / roll_max).min(), kept as the fraction
\* (equity - roll_max) / roll_max of a day where it is least
Mdd(arr) ==
    LET roll_max == CumMax(arr)
        worst == CHOOSE k \in 1..Len(arr) :
                     \A j \in 1..Len(arr) :
                         ~FracLess(arr[j], roll_max[j], arr[k], roll_max[k])
    IN  Frac(arr[worst] - roll_max[worst], roll_max[worst])

\* An iteration on a table of at most MaxDays rows.
Day(row) == Len(df) < MaxDays /\ Iteration(row)

\* The statistics block after the loop (lines 304-334), for a table of
\* len(df) >= 1 rows.  total_return is kept as the fraction
\* (final_equity - initial_capital) / initial_capital.
Finish ==
    /\ pc = "loop"
    /\ Len(df) >= 1
    /\ pc' = "done"
    /\ stats' = [initial_capital |-> cfg.initial_capital,
                 final_equity |-> equity_arr[Len(equity_arr)],
                 total_return |-> Frac(equity_arr[Len(equity_arr)] - cfg.initial_capital,
                                       cfg.initial_capital),
                 mdd |-> Mdd(equity_arr),
                 total_cost |-> total_cost,
                 total_dividend |-> total_dividend,
                 allocation_mode |-> cfg.allocation_mode,
                 futures_pct |-> cfg.futures_pct,
                 etf_pct |-> cfg.etf_pct]
    /\ UNCHANGED <<cfg, df, cash, contracts, etf_shares, last_valid_etf_value,
                   equity_arr, trade_log, total_cost, total_dividend, last_month, day>>

\* The state at line 68, before the first iteration: last_month is the month
\* of the table's first date.
InitWith(configs) ==
    /\ cfg \in configs
    /\ df = << >>
    /\ pc = "loop"
    /\ cash = cfg.initial_capital
    /\ contracts = 0
    /\ etf_shares = 0
    /\ last_valid_etf_value = 0
    /\ equity_arr = << >>
    /\ trade_log = << >>
    /\ total_cost = 0
    /\ total_dividend = 0
    /\ last_month \in FirstMonths
    /\ day = NoDay
    /\ stats = [initial_capital |-> cfg.initial_capital]

Init == InitWith(Configs)

Step == \E row \in Rows(cfg, Len(df) = 0) : Day(row)

Next == Step \/ Finish

Spec == Init /\ [][Next]_vars

\* every fee, yield and dividend amount of the explored inputs is a whole number
ArithmeticExact == day.i >= 0 => ~day.inexact

\* ------------------------------------------------- the flat-index scenario
\* initial_capital 1,000,000, leverage 2, ma_long with ma_period 5, no ETF,
\* the other arguments at their defaults (lines 17-21)
FlatDefault ==
    [strategy |-> "ma_long", etf_code |-> "none", allocation_mode |-> "dynamic",
     initial_capital |-> 1000000, leverage |-> 2, ma_period |-> 5, risk_ratio |-> 3,
     dividend_yield |-> Frac(40, 1000),
     futures_pct |-> Frac(6, 10), etf_pct |-> Frac(4, 10)]
\* the same run without backwardation yield
FlatZeroYield == [FlatDefault EXCEPT !.dividend_yield = Frac(0, 1000)]
FlatConfigs == {FlatDefault, FlatZeroYield}

\* a constant index over 100 trading days, in calendar months of 20 or 22
\* trading days (the table may start anywhere in its first month)
FlatTable == [days |-> 100, prices |-> {6300, 12600}, month_lens |-> {20, 22}]

RECURSIVE DaysInMonth(_)
\* the number of rows at the end of the table that share the last row's month
DaysInMonth(rows) ==
    IF Len(rows) <= 1 THEN Len(rows)
    ELSE IF rows[Len(rows)].month # rows[Len(rows) - 1].month THEN 1
    ELSE 1 + DaysInMonth(SubSeq(rows, 1, Len(rows) - 1))

NextMonth(m) == (m % 12) + 1

FlatRow(m, p) == [month |-> m, TAIEX |-> p, etf |-> NaN, dividend |-> NoEntry]

\* the rows that can follow the table rows
FlatRows(rows) ==
    IF Len(rows) = 0 THEN { FlatRow(last_month, p) : p \in FlatTable.prices }
    ELSE LET last == rows[Len(rows)]
             run == DaysInMonth(rows)
             first_month == run = Len(rows)
             may_end == first_month \/ run \in FlatTable.month_lens
             must_end == \A l \in FlatTable.month_lens : run >= l
         IN  (IF must_end THEN {} ELSE {FlatRow(last.month, last.TAIEX)})
             \cup (IF may_end THEN {FlatRow(NextMonth(last.month), last.TAIEX)} ELSE {})

FlatInit == InitWith(FlatConfigs)

FlatStep == \E row \in FlatRows(df) : Len(df) < FlatTable.days /\ Iteration(row)

FlatFinish == Len(df) = FlatTable.days /\ Finish

FlatNext == FlatStep \/ FlatFinish

SpecFlat == FlatInit /\ [][FlatNext]_vars

\* ------------------------------------------------- degenerate price tables
\* index prices that may be zero, ETF prices missing, zero or negative
EdgeTaiexPrices == {0, 100}
EdgeEtfPrices == {NaN, Num(0), Num(-1000), Num(1000)}

EdgeRows(c, first) ==
    { [month |-> m, TAIEX |-> t, etf |-> e, dividend |-> dv] :
      m \in Months,
      t \in EdgeTaiexPrices,
      e \in IF c.etf_code \in Columns
             THEN (IF first THEN FirstEtfPrices ELSE EdgeEtfPrices)
             ELSE {NaN},
      dv \in IF c.etf_code \in Columns /\ ~first THEN DividendEntries ELSE {NoEntry} }

EdgeStep == \E row \in EdgeRows(cfg, Len(df) = 0) : Day(row)

EdgeNext == EdgeStep \/ Finish

SpecEdge == Init /\ [][EdgeNext]_vars

\* ------------------------------------------- saved runs (src/app.py)
\* the engine parameters kept in a saved record (result_data)
SavedRecord(c) ==
    [strategy |-> c.strategy, etf |-> c.etf_code, ma_period |-> c.ma_period,
     leverage |-> c.leverage, allocation_mode |-> c.allocation_mode,
     futures_pct |-> c.futures_pct, etf_pct |-> c.etf_pct,
     initial_capital |-> c.initial_capital]

\* the arguments with which the trade-detail and yearly-return views call
\* run_backtest for the saved record r
ReplayArguments(r) ==
    [strategy |-> r.strategy, etf_code |-> r.etf,
     initial_capital |-> r.initial_capital, leverage |-> r.leverage,
     ma_period |-> r.ma_period, risk_ratio |-> 3, dividend_yield |-> Frac(4, 100),
     allocation_mode |-> r.allocation_mode, futures_pct |-> r.futures_pct,
     etf_pct |-> r.etf_pct]

\* ================================================================ claims
Ran == day.i >= 0
Rebalanced == Ran /\ day.rebalance
LastEquity == equity_arr[Len(equity_arr)]
FuturesRecordsIn(log) == { k \in 1..Len(log) : log[k].type = "futures" }
EtfRecordsIn(log) == { k \in 1..Len(log) : log[k].type = "ETF" }
\* day k (0-based) of the table is the first day or opens a new month
MonthBoundary(k) == k = 0 \/ df[k + 1].month # df[k].month

\* C1: with initial_capital > 0, every recorded equity value is strictly
\* positive, whatever the prices, strategy, leverage and allocation mode.
C1_EquityPositive ==
    cfg.initial_capital > 0 => \A k \in 1..Len(equity_arr) : equity_arr[k] > 0

\* C1 witness: a day whose cash + ETF value is not positive has been recorded
C1_Witness == Ran /\ day.raw_equity <= 0 /\ day.i >= 1 /\ LastEquity > 0

\* C2: a rebalance is executed on day 0 and on exactly the later days whose
\* month differs from the month of the preceding day; every ledger record
\* carries the date of such a day.
C2_RebalanceOnMonthChange ==
    /\ Ran => (day.rebalance <=> MonthBoundary(day.i))
    /\ \A k \in 1..Len(trade_log) : MonthBoundary(trade_log[k].date)

\* C2 witness: after a day without rebalance, a later month opens and trades
C2_Witness ==
    /\ Rebalanced /\ day.i = 2
    /\ df[2].month = df[1].month
    /\ \E k \in 1..Len(trade_log) : trade_log[k].date = 2

\* C3: with strategy etf_only and an ETF selector other than none, the contract
\* count is 0 throughout and every ledger record is an ETF record.
C3_EtfOnlyNoFutures ==
    (cfg.strategy = "etf_only" /\ cfg.etf_code # "none") =>
        /\ contracts = 0
        /\ Ran => day.target_contracts = 0
        /\ FuturesRecordsIn(trade_log) = {}

\* C3 witness: a pure-ETF run that has traded the ETF on two rebalance days
C3_Witness ==
    /\ cfg.strategy = "etf_only" /\ cfg.etf_code # "none"
    /\ Rebalanced /\ day.i >= 1
    /\ Cardinality(EtfRecordsIn(trade_log)) >= 2

\* target_etf_value = total_equity * etf_pct on the last day's rebalance
EtfTargetIsPct ==
    day.target_etf_value.n * cfg.etf_pct.d
        = day.total_equity * cfg.etf_pct.n * day.target_etf_value.d

\* C4 as stated: in allocation mode fixed, on every rebalance day the target
\* ETF value is total_equity * etf_pct, whatever the signal, the strategy and
\* the other parameters.
C4_FixedEtfTargetAnyConfig ==
    (Rebalanced /\ cfg.allocation_mode = "fixed") => EtfTargetIsPct

\* C4 amended: in allocation mode fixed, with a strategy other than etf_only
\* and an ETF selector other than none, on every rebalance day the target ETF
\* value is total_equity * etf_pct, whatever the signal.
C4_FixedEtfTarget ==
    (Rebalanced /\ cfg.allocation_mode = "fixed"
        /\ cfg.strategy # "etf_only" /\ cfg.etf_code # "none") => EtfTargetIsPct

\* C4 witness: a fixed-mode rebalance under a flat signal with a non-zero target
C4_Witness ==
    /\ Rebalanced /\ cfg.allocation_mode = "fixed"
    /\ cfg.strategy = "ma_trend" /\ cfg.etf_code # "none"
    /\ day.signal = 0 /\ day.total_equity > 0 /\ day.target_etf_value.n > 0
    /\ cfg.etf_pct.n < cfg.etf_pct.d

\* C5: right after an executed ETF buy, cash is at least the required margin
\* of that rebalance.
C5_BuyKeepsMargin ==
    (Rebalanced /\ day.leg.action = "buy") => day.leg.cash >= day.required_margin

\* C5 witness: a buy cut short by a non-zero margin reserve
C5_Witness ==
    /\ Rebalanced /\ day.leg.action = "buy"
    /\ day.required_margin > 0
    /\ day.leg.actual_buy < day.leg.diff_shares

\* the ETF target that the rebalance rules give for the day's own equity
FreshEtfTarget ==
    IF cfg.etf_code = "none" THEN Num(0)
    ELSE IF cfg.strategy = "etf_only" THEN Num(day.total_equity)
    ELSE IF cfg.allocation_mode = "fixed"
         THEN Frac(day.total_equity * cfg.etf_pct.n, cfg.etf_pct.d)
    ELSE IF cfg.allocation_mode = "futures_only" THEN Num(0)
    ELSE Num(Max(0, day.total_equity - day.required_margin))

\* C6: when the available cash cannot pay for the full share delta, the buy
\* is the largest affordable count, strictly below the delta; the run goes on,
\* and every rebalance takes its ETF target from that day's equity alone.
C6_PartialFill ==
    /\ (Rebalanced /\ day.leg.ran /\ day.leg.diff_shares > 0
            /\ day.leg.max_buy_shares < day.leg.diff_shares) =>
        /\ day.leg.actual_buy < day.leg.diff_shares
        /\ etf_shares = day.shares_before + day.leg.actual_buy
        /\ day.leg.actual_buy * day.price_etf.n * (cost_rate_den + cost_rate_num)
               <= day.leg.available_cash * cost_rate_den
        /\ (day.leg.actual_buy + 1) * day.price_etf.n * (cost_rate_den + cost_rate_num)
               > day.leg.available_cash * cost_rate_den
        /\ Len(equity_arr) = day.i + 1
    /\ Rebalanced =>
        /\ day.total_equity = day.cash_pnl + HeldEtfValue(day.shares_before, day.price_etf)
        /\ day.target_etf_value = FreshEtfTarget

\* C6 witness: a rebalance after an earlier one, buying fewer shares than asked
C6_Witness ==
    /\ Rebalanced /\ day.i >= 1 /\ day.leg.ran
    /\ day.leg.actual_buy > 0
    /\ day.leg.actual_buy < day.leg.diff_shares
    /\ day.shares_before > 0

\* C7: with a strategy other than etf_only, on every rebalance day and for
\* every allocation mode the target contract count has the sign of the signal
\* (0 for a flat signal) and the held count equals it afterwards.
C7_ContractsFollowSignal ==
    (Rebalanced /\ cfg.strategy # "etf_only") =>
        /\ day.signal = 1 => day.target_contracts >= 0
        /\ day.signal = -1 => day.target_contracts <= 0
        /\ day.signal = 0 => day.target_contracts = 0
        /\ contracts = day.target_contracts

\* the moving average of day i is defined, and the day's price is at or above it
MaDefined(i) == cfg.ma_period > 0 /\ i + 1 >= cfg.ma_period
AtOrAboveMa(i) ==
    df[i + 1].TAIEX * cfg.ma_period
        >= SumRange(TaiexOf(df), i + 2 - cfg.ma_period, i + 1)

\* C8: ma_long gives +1 exactly when the moving average is defined and
\* price >= MA, else 0; ma_trend gives +1 / -1 for price >= MA / price < MA
\* when it is defined and 0 when it is not.
C8_MaSignal ==
    Ran =>
        /\ cfg.strategy = "ma_long" =>
               day.signal = IF MaDefined(day.i) /\ AtOrAboveMa(day.i) THEN 1 ELSE 0
        /\ cfg.strategy = "ma_trend" =>
               day.signal = IF ~MaDefined(day.i) THEN 0
                            ELSE IF AtOrAboveMa(day.i) THEN 1 ELSE -1

\* C8 witness: a day whose price equals its defined moving average
C8_Witness ==
    /\ Ran /\ cfg.strategy = "ma_trend" /\ MaDefined(day.i)
    /\ df[day.i + 1].TAIEX * cfg.ma_period
           = SumRange(TaiexOf(df), day.i + 2 - cfg.ma_period, day.i + 1)
    /\ day.signal = 1

\* C9: always_long gives +1 on every day, also while the moving average is
\* undefined and when ma_period <= 0.
C9_AlwaysLong == (Ran /\ cfg.strategy = "always_long") => day.signal = 1

\* C9 witness: an always_long day with ma_period <= 0
C9_Witness ==
    /\ Ran /\ cfg.strategy = "always_long" /\ cfg.ma_period <= 0
    /\ isna(day.ma_val) /\ day.i >= 1 /\ contracts > 0

\* C10: for a strategy the engine does not recognise the signal is 0 every
\* day, the contract count stays 0 and no futures record is emitted.
C10_UnknownStrategyFlat ==
    cfg.strategy \notin {"always_long", "ma_long", "ma_trend", "etf_only"} =>
        /\ Ran => day.signal = 0
        /\ contracts = 0
        /\ FuturesRecordsIn(trade_log) = {}
        /\ Ran => Len(equity_arr) = day.i + 1

\* C10 witness: an unrecognised strategy rebalancing below a defined average
C10_Witness ==
    /\ cfg.strategy = "ma_short" /\ Rebalanced /\ day.i >= 1
    /\ MaDefined(day.i) /\ ~AtOrAboveMa(day.i)
    /\ cfg.allocation_mode = "custom"

\* the day's price is strictly above the moving average of day i
AboveMa(i) ==
    df[i + 1].TAIEX * cfg.ma_period
        > SumRange(TaiexOf(df), i + 2 - cfg.ma_period, i + 1)

\* C11: the offered strategy ma_short is executed as labelled: on a rebalance
\* day with the moving average defined, price < MA gives a short target
\* (negative contracts) and price > MA gives a flat one.
C11_MaShortAsLabelled ==
    (cfg.strategy \in strategy_options /\ cfg.strategy = "ma_short"
        /\ Rebalanced /\ MaDefined(day.i)) =>
        /\ ~AtOrAboveMa(day.i) => day.target_contracts < 0
        /\ AboveMa(day.i) => day.target_contracts = 0

\* a futures position has been opened in the run
Opened == FuturesRecordsIn(trade_log) # {}

\* once the moving average is defined the signal is long, and once a futures
\* position has been opened the recorded equity stays below initial capital
FlatRunBelowInitial ==
    Ran =>
        /\ day.signal = IF day.i >= cfg.ma_period - 1 THEN 1 ELSE 0
        /\ Opened => LastEquity < cfg.initial_capital
        /\ (pc = "done" /\ Opened) => stats.final_equity < cfg.initial_capital

\* C12 as stated: in the flat-index scenario with the other arguments at the
\* engine defaults, the equity is below initial capital from the opening of a
\* futures position to the end of the run.
C12_FlatDefaultBelowInitial == cfg = FlatDefault => FlatRunBelowInitial

\* C12 amended: the same scenario with dividend_yield = 0 instead of the
\* default 0.04.
C12_FlatZeroYieldBelowInitial == cfg = FlatZeroYield => FlatRunBelowInitial

\* C12 witness: a finished 100-day run without yield that opened a position
C12_Witness ==
    /\ cfg = FlatZeroYield /\ pc = "done" /\ Len(df) = FlatTable.days
    /\ Opened /\ contracts > 0
    /\ stats.final_equity < cfg.initial_capital

\* the ledger records of the given type dated on the last processed day
TodaysRecords(type) ==
    { k \in 1..Len(trade_log) : trade_log[k].date = day.i /\ trade_log[k].type = type }

\* C14: on each rebalance day one futures record is appended iff the target
\* differs from the held contracts, and one ETF record iff the share count
\* changes; every record has a non-zero delta.
C14_LedgerMatchesState ==
    /\ Rebalanced =>
        /\ Cardinality(TodaysRecords("futures"))
               = IF day.target_contracts # day.contracts_before THEN 1 ELSE 0
        /\ Cardinality(TodaysRecords("ETF"))
               = IF etf_shares # day.shares_before THEN 1 ELSE 0
        /\ \A k \in TodaysRecords("futures") :
               /\ trade_log[k].delta = contracts - day.contracts_before
               /\ trade_log[k].after = contracts
        /\ \A k \in TodaysRecords("ETF") :
               /\ trade_log[k].delta = etf_shares - day.shares_before
               /\ trade_log[k].after = etf_shares
    /\ \A k \in 1..Len(trade_log) : trade_log[k].delta # 0

\* C14 witness: a later rebalance with nothing to trade: contracts on target
\* and a wanted ETF buy of which no share is affordable
C14_Witness ==
    /\ Rebalanced /\ day.i >= 1 /\ day.leg.ran
    /\ day.diff_contracts = 0 /\ day.contracts_before # 0
    /\ day.leg.diff_shares > 0 /\ day.leg.max_buy_shares = 0
    /\ TodaysRecords("futures") = {} /\ TodaysRecords("ETF") = {}

\* floor(target_etf_value / price_etf), clamped to >= 0
FloorTargetShares ==
    Max(0, day.target_etf_value.n \div (day.target_etf_value.d * day.price_etf.n))

\* C15: on a rebalance day with a configured ETF at a known positive price, a
\* target share count below the held count is reached exactly, whatever the
\* cash, and cash is credited with the sale value minus the proportional fee.
C15_SellsAreFull ==
    (Rebalanced /\ cfg.etf_code # "none" /\ ~isna(day.price_etf) /\ day.price_etf.n > 0
        /\ FloorTargetShares < day.shares_before) =>
        LET sold == day.shares_before - FloorTargetShares
            value == sold * day.price_etf.n
        IN  /\ etf_shares = FloorTargetShares
            /\ (cash - day.cash_fut) * cost_rate_den
                   = value * cost_rate_den - value * cost_rate_num

\* C15 witness: a sale made while cash is negative
C15_Witness ==
    /\ Rebalanced /\ day.leg.action = "sell" /\ day.cash_fut < 0
    /\ etf_shares > 0

\* C16: the ETF share count is a non-negative integer in every state.
C16_SharesNonNegative == etf_shares \in Nat

\* C16 witness: a sale toward a negative target value ends at zero shares
C16_Witness ==
    /\ Rebalanced /\ day.leg.action = "sell"
    /\ day.target_etf_value.n < 0 /\ etf_shares = 0

\* one equity value per processed day, days processed in order, no exception
EdgeRunSound ==
    /\ pc # "raised"
    /\ Len(equity_arr) = Len(df)
    /\ Ran => day.i = Len(df) - 1
    /\ pc = "done" =>
           /\ Len(df) >= 1
           /\ stats.final_equity = LastEquity

\* every step either processes exactly the next day or ends the run
EdgeProgress ==
    /\ pc = "loop"
    /\ \/ pc' = "loop" /\ Len(df') = Len(df) + 1 /\ Len(equity_arr') = Len(equity_arr) + 1
       \/ pc' = "done" /\ df' = df /\ equity_arr' = equity_arr

\* C17: on any non-empty table with numeric index prices (possibly zero) and
\* ETF prices that may be missing, zero or negative, with initial_capital > 0,
\* no exception is raised: each step processes the next day of the finite
\* table or ends the run, and there is exactly one equity value per day.
C17_NoExceptionOneEquityPerDay ==
    /\ [](cfg.initial_capital > 0 => EdgeRunSound)
    /\ [][cfg.initial_capital > 0 => EdgeProgress]_vars

\* C17 witness: a finished run over a zero index price and, with shares held,
\* a negative ETF price
C17_Witness ==
    /\ pc = "done" /\ Len(df) >= 2
    /\ df[2].TAIEX = 0 /\ day.rebalance
    /\ ~isna(day.price_etf) /\ day.price_etf.n < 0 /\ day.shares_before > 0

\* a step that processes one more day
DayStep == pc' = "loop" /\ Len(df') = Len(df) + 1

\* C18: on every day i > 0 the cash change before the signal and the rebalance
\* consists of contracts * (price[i] - price[i-1]) * point_value, with the
\* contracts held at the end of day i-1, next to the day's yield and dividend
\* credits; on day 0 nothing accrues and the rebalance sizes against
\* initial_capital.
C18_MarkToMarket ==
    [][DayStep =>
         LET i == Len(df)
         IN  IF i > 0
             THEN day'.cash_pnl - day'.yield_pnl - day'.div_income
                      = cash + contracts * (df'[i + 1].TAIEX - df[i].TAIEX) * point_value
             ELSE /\ day'.cash_pnl = cash
                  /\ day'.rebalance
                  /\ day'.total_equity = cfg.initial_capital]_vars

\* C18 witness: a short position loses on a rising index
C18_Witness ==
    /\ Ran /\ day.i > 0
    /\ day.contracts_before < 0
    /\ df[day.i + 1].TAIEX > df[day.i].TAIEX
    /\ day.fut_pnl < 0

\* C19: on a day i > 0 the yield contracts * (price[i-1] * annual_yield / 252)
\* * point_value is credited exactly when the held contract count is > 0; when
\* short or flat the futures cash change is the mark-to-market PnL alone.
C19_YieldOnlyWhileLong ==
    (Ran /\ day.i > 0) =>
        /\ day.contracts_before > 0 =>
               day.yield_pnl * (252 * cfg.dividend_yield.d)
                   = day.contracts_before * df[day.i].TAIEX * cfg.dividend_yield.n * point_value
        /\ day.contracts_before <= 0 =>
               /\ day.yield_pnl = 0
               /\ day.cash_pnl - day.div_income - day.cash_before
                      = day.contracts_before
                            * (df[day.i + 1].TAIEX - df[day.i].TAIEX) * point_value

\* C19 witness: a short position on a day whose yield term would be non-zero
C19_Witness ==
    /\ Ran /\ day.i > 0
    /\ day.contracts_before < 0
    /\ cfg.dividend_yield.n > 0 /\ df[day.i].TAIEX > 0
    /\ day.yield_pnl = 0

\* the dividend credit of the day that appends `row` to the table
DividendCredit(row, shares) ==
    IF row.dividend.present /\ shares > 0 THEN shares * row.dividend.amount ELSE 0

\* C20: on every day that is in the dividend calendar and starts with ETF shares
\* > 0, cash and the cumulative dividend total both grow by shares * per-share
\* amount; on every other day dividends change neither; the reported
\* total_dividend is the sum of the credits.
C20_Dividends ==
    /\ total_dividend = 0
    /\ [][DayStep =>
            LET credit == DividendCredit(df'[Len(df) + 1], etf_shares)
            IN  /\ total_dividend' = total_dividend + credit
                /\ day'.cash_pnl = cash + day'.fut_pnl + day'.yield_pnl + credit]_vars
    /\ [][(pc = "loop" /\ pc' = "done") =>
            (total_dividend' = total_dividend /\ stats'.total_dividend = total_dividend)]_vars

\* C20 witness: a second dividend is credited on more than one share
C20_Witness ==
    /\ Ran /\ day.shares_before > 1
    /\ day.div_income = day.shares_before * df[day.i + 1].dividend.amount
    /\ day.div_income > 0
    /\ total_dividend > day.div_income

\* the ETF price of table row k is known and positive
KnownPositive(k) == ~isna(df[k].etf) /\ df[k].etf.n > 0

\* the rows before the last processed day that have a known positive ETF price
EarlierKnown == { k \in 1..day.i : KnownPositive(k) }

\* the ETF price of the most recent earlier day with a known positive price
LastKnownPrice == df[CHOOSE k \in EarlierKnown : \A j \in EarlierKnown : j <= k].etf.n

\* C21: on a day that starts with ETF shares > 0 and has a missing or
\* non-positive ETF price, the day's equity values the shares at the price of
\* the most recent earlier day with a known positive price, the ETF leg is
\* skipped (share count unchanged, no ETF record) and the run does not fail.
C21_StalePriceCarryForward ==
    /\ pc # "raised"
    /\ (Ran /\ day.shares_before > 0
            /\ (isna(day.price_etf) \/ day.price_etf.n <= 0)) =>
           /\ EarlierKnown # {}
           /\ etf_shares = day.shares_before
           /\ TodaysRecords("ETF") = {}
           /\ day.etf_value = etf_shares * LastKnownPrice
           /\ day.raw_equity = cash + etf_shares * LastKnownPrice
           /\ day.raw_equity > 0 => LastEquity = day.raw_equity

\* C21 witness: a rebalance day without a price, after a day on which the
\* price had moved away from the purchase price
C21_Witness ==
    /\ Rebalanced /\ day.i = 2 /\ day.shares_before > 0
    /\ isna(day.price_etf)
    /\ df[1].etf = Num(1000) /\ df[2].etf = Num(2000)
    /\ day.etf_value = etf_shares * 2000

\* C22: when cash + ETF value is <= 0 the recorded equity is the previous
\* day's recorded equity (initial_capital on day 0); otherwise it is exactly
\* cash + ETF value.
C22_EquityClamp ==
    Ran =>
        IF cash + day.etf_value <= 0
        THEN LastEquity = IF day.i = 0 THEN cfg.initial_capital
                          ELSE equity_arr[Len(equity_arr) - 1]
        ELSE LastEquity = cash + day.etf_value

\* C22 witness: a clamped day that repeats a previous equity other than
\* initial_capital
C22_Witness ==
    /\ Ran /\ day.i >= 1
    /\ cash + day.etf_value <= 0
    /\ LastEquity # cfg.initial_capital

\* C23 as stated: a futures record is labelled open-long only when its delta
\* is > 0 and the count held before the trade is >= 0.
C23_LongOnlyFromNonNegativeBase ==
    \A k \in FuturesRecordsIn(trade_log) :
        trade_log[k].action = "long" =>
            /\ trade_log[k].delta > 0
            /\ trade_log[k].after - trade_log[k].delta >= 0

\* the running peak of the equity series on day k (1-based)
RunningPeak(k) ==
    CHOOSE m \in {equity_arr[j] : j \in 1..k} : \A j \in 1..k : equity_arr[j] <= m

\* the reported drawdown is at most / exactly the drawdown of day k:
\* 1 + mdd against equity / running peak
MddAtMost(k) ==
    ~FracLess(equity_arr[k], RunningPeak(k), stats.mdd.n + stats.mdd.d, stats.mdd.d)
MddIs(k) ==
    /\ MddAtMost(k)
    /\ ~FracLess(stats.mdd.n + stats.mdd.d, stats.mdd.d, equity_arr[k], RunningPeak(k))

\* C24: the reported max drawdown is the minimum over days of
\* (equity - running peak) / running peak; with initial_capital > 0 it is
\* non-positive and greater than -1, and it is 0 exactly when the equity
\* series never falls below an earlier value.
C24_MaxDrawdown ==
    (pc = "done" /\ cfg.initial_capital > 0) =>
        /\ stats.mdd.d > 0
        /\ \A k \in 1..Len(equity_arr) : MddAtMost(k)
        /\ \E k \in 1..Len(equity_arr) : MddIs(k)
        /\ stats.mdd.n <= 0
        /\ stats.mdd.n > -stats.mdd.d
        /\ stats.mdd.n = 0 <=>
               \A j, k \in 1..Len(equity_arr) : j < k => equity_arr[j] <= equity_arr[k]

\* C24 witness: the series fell and then recovered to a new high, so the
\* reported drawdown is that of an earlier day and not of the last one
C24_Witness ==
    /\ pc = "done" /\ Len(equity_arr) = 3
    /\ equity_arr[2] < equity_arr[1] /\ equity_arr[1] < equity_arr[3]
    /\ stats.mdd.n = equity_arr[2] - equity_arr[1]
    /\ stats.mdd.d = equity_arr[1]

\* no ETF is configured, or the mode is futures_only without the etf_only
\* strategy
NoEtfSleeve ==
    \/ cfg.etf_code = "none"
    \/ cfg.etf_code \notin Columns
    \/ cfg.allocation_mode = "futures_only" /\ cfg.strategy # "etf_only"

\* C25: without an ETF sleeve the share count is 0 for the whole run, no ETF
\* record is emitted, and the recorded equity is the cash on every day that
\* is not clamped.
C25_NoEtfSleeve ==
    NoEtfSleeve =>
        /\ etf_shares = 0
        /\ EtfRecordsIn(trade_log) = {}
        /\ (Ran /\ cash > 0) => LastEquity = cash

\* C25 witness: a futures_only rebalance at a valid price of a configured
\* ETF, where the ETF leg runs and trades nothing
C25_Witness ==
    /\ Rebalanced /\ day.i >= 1
    /\ cfg.allocation_mode = "futures_only" /\ cfg.strategy # "etf_only"
    /\ day.leg.ran /\ day.price_etf.n > 0
    /\ contracts # 0 /\ cash > 0
    /\ etf_shares = 0 /\ LastEquity = cash

\* the step processes a day after the first whose month is that of the day
\* before: not a rebalance day
QuietDayStep ==
    DayStep /\ Len(df) > 0 /\ df'[Len(df) + 1].month = df[Len(df)].month

\* C26: on a day that is not a rebalance day the contract count, the share
\* count, the ledger and the cumulative cost are unchanged, and cash changes
\* by the futures PnL, the backwardation yield and the dividend income only.
C26_QuietDayFrame ==
    [][QuietDayStep =>
         LET i == Len(df)
             mtm == contracts * (df'[i + 1].TAIEX - df[i].TAIEX) * point_value
             credit == DividendCredit(df'[i + 1], etf_shares)
         IN  /\ ~day'.rebalance
             /\ contracts' = contracts
             /\ etf_shares' = etf_shares
             /\ trade_log' = trade_log
             /\ total_cost' = total_cost
             /\ (cash' - cash - mtm - credit) * (252 * cfg.dividend_yield.d)
                    = IF contracts > 0
                      THEN contracts * df[i].TAIEX * cfg.dividend_yield.n * point_value
                      ELSE 0]_vars

\* C26 witness: a day inside a month with a long position, a moving index,
\* yield and a dividend on held shares
C26_Witness ==
    /\ Ran /\ day.i >= 1 /\ ~day.rebalance
    /\ day.contracts_before > 0 /\ day.shares_before > 0
    /\ day.fut_pnl # 0 /\ day.yield_pnl > 0 /\ day.div_income > 0
    /\ cash = day.cash_before + day.fut_pnl + day.yield_pnl + day.div_income

\* the step processes a rebalance day (the first day or a new month) on which
\* the ETF price is known and positive, or no ETF is configured
PricedRebalanceStep ==
    /\ DayStep
    /\ Len(df) = 0 \/ df'[Len(df) + 1].month # df[Len(df)].month
    /\ \/ cfg.etf_code = "none"
       \/ /\ cfg.etf_code \in Columns
          /\ ~isna(df'[Len(df) + 1].etf) /\ df'[Len(df) + 1].etf.n > 0

\* C27: on such a day cash + shares * price after the rebalance equals
\* cash + shares * price before it (after the day's accruals) minus the fees,
\* 50 per contract of futures delta plus 0.1% of the ETF trade value, and the
\* cumulative cost grows by the same fees.  Amounts are in thousandths.
C27_TradesValueNeutral ==
    [][PricedRebalanceStep =>
         LET price == IF cfg.etf_code = "none" THEN 0 ELSE df'[Len(df) + 1].etf.n
             fees == 50 * Abs(contracts' - contracts) * 1000
                         + Abs(etf_shares' - etf_shares) * price
         IN  /\ (cash' + etf_shares' * price) * 1000
                    = (day'.cash_pnl + etf_shares * price) * 1000 - fees
             /\ (total_cost' - total_cost) * 1000 = fees]_vars

\* C27 witness: a later rebalance that trades several contracts and sells
\* ETF shares at a price other than the purchase price
C27_Witness ==
    /\ Rebalanced /\ day.i >= 1
    /\ Abs(day.diff_contracts) >= 2
    /\ day.leg.action = "sell" /\ day.price_etf.n = 2000
    /\ day.leg.cost > 0

\* a rebalance in dynamic mode, not etf_only, with a configured ETF at a known
\* positive price, whose pre-trade total equity covers the required margin
DynamicReserveCase ==
    /\ Rebalanced
    /\ cfg.allocation_mode = "dynamic" /\ cfg.strategy # "etf_only"
    /\ cfg.etf_code # "none" /\ cfg.etf_code \in Columns
    /\ ~isna(day.price_etf) /\ day.price_etf.n > 0
    /\ day.total_equity
           >= Abs(day.target_contracts) * margin_per_contract * cfg.risk_ratio

\* C28 as stated: in that case the cash after the futures and ETF legs is at
\* least the required margin.
C28_ReserveHeldInCash ==
    DynamicReserveCase =>
        cash >= Abs(day.target_contracts) * margin_per_contract * cfg.risk_ratio

\* the ETF value that the day's valuation gives the shares held before
\* trading: at the day's price when it is known and positive, else at the
\* price of the most recent earlier day with a known positive price
ValuationOfHeld ==
    IF day.shares_before > 0
    THEN (IF ~isna(day.price_etf) /\ day.price_etf.n > 0
          THEN day.shares_before * day.price_etf.n
          ELSE day.shares_before * LastKnownPrice)
    ELSE 0

\* C29 as stated: on every rebalance day the sizing equity is cash plus the
\* valuation's ETF value of the shares held before trading, and so is the
\* equity snapshot of the day's futures record (cash after the futures fee).
C29_SizingMatchesValuation ==
    Rebalanced =>
        /\ day.total_equity = day.cash_pnl + ValuationOfHeld
        /\ \A k \in TodaysRecords("futures") :
               trade_log[k].equity = day.cash_fut + ValuationOfHeld

\* the fractions x and y are the same number
SameNumber(x, y) == x.n * y.d = y.n * x.d

\* C30 as stated: the replay of a saved run calls run_backtest with the same
\* value of every engine parameter as the run that was saved.
C30_ReplayUsesSavedParameters ==
    pc = "done" =>
        LET a == ReplayArguments(SavedRecord(cfg))
        IN  /\ a.strategy = cfg.strategy
            /\ a.etf_code = cfg.etf_code
            /\ a.initial_capital = cfg.initial_capital
            /\ a.leverage = cfg.leverage
            /\ a.ma_period = cfg.ma_period
            /\ a.allocation_mode = cfg.allocation_mode
            /\ SameNumber(a.futures_pct, cfg.futures_pct)
            /\ SameNumber(a.etf_pct, cfg.etf_pct)
            /\ a.risk_ratio = cfg.risk_ratio
            /\ SameNumber(a.dividend_yield, cfg.dividend_yield)

====
